---- MODULE Spec2Model ----
(***************************************************************************)
(* Model of streamlit_app.py (Cornell Tech weather dashboard).             *)
(*                                                                         *)
(* The program is a Streamlit script: every user interaction re-runs the   *)
(* whole script top to bottom.  One script run calls the cached loader     *)
(* get_weather_data(), reads the sidebar widgets, filters the frame by     *)
(* year range and season, and computes one of three views.                 *)
(*                                                                         *)
(* A DataFrame is modelled as a function from row labels (the RangeIndex   *)
(* 0..n-1 that read_csv assigns) to rows; boolean indexing restricts the   *)
(* function to the labels whose row satisfies the mask.  Temperatures are  *)
(* exact rationals [n, d] (d > 0); NaN is the value with d = 0.  Ktemp is  *)
(* held in hundredths of a kelvin.                                         *)
(***************************************************************************)
EXTENDS Integers, Sequences, FiniteSets

(***************************************************************************)
(* Bounds of the model.                                                    *)
(***************************************************************************)
FirstYear == 2019
LastYear == 2021
MaxRows == 3
MaxMonthlyRows == 2
MaxReads == 3

\* years of the sampled observations, and of the monthly ones
Years == FirstYear..LastYear
MonthlyYears == FirstYear..(FirstYear + 1)

\* (month, day) pairs of the sampled observation dates
SampleDays == {<<1, 15>>, <<7, 15>>}
\* one date in every calendar month
MonthlyDays == {<<m, 1>> : m \in 1..12}
\* sampled Ktemp values, in hundredths of a kelvin (270.15 K, 300.15 K)
SampleKtemps == {27015, 30015}
\* Ktemp of the monthly observations (280.15 K)
MonthlyKtemps == {28015}

(***************************************************************************)
(* Rational numbers and NaN.                                               *)
(***************************************************************************)
Abs(x) == IF x < 0 THEN -x ELSE x

RECURSIVE Gcd(_, _)
Gcd(a, b) == IF b = 0 THEN a ELSE Gcd(b, a % b)

Rat(n, d) == LET g == Gcd(Abs(n), d) IN [n |-> n \div g, d |-> d \div g]

NaN == [n |-> 0, d |-> 0]

IsNaN(r) == r.d = 0

RatAdd(a, b) == Rat(a.n * b.d + b.n * a.d, a.d * b.d)

RatSub(a, b) ==
    IF IsNaN(a) \/ IsNaN(b) THEN NaN ELSE Rat(a.n * b.d - b.n * a.d, a.d * b.d)

RatDivInt(a, k) == Rat(a.n, a.d * k)

RatLess(a, b) == a.n * b.d < b.n * a.d

\* x > 0 as Python evaluates it on a float: False for NaN
RatPositive(a) == ~IsNaN(a) /\ a.n > 0

RatAbs(a) == [n |-> Abs(a.n), d |-> a.d]

(***************************************************************************)
(* Calendar fields of a timestamp [y, m, d] (pandas .dt accessors).        *)
(***************************************************************************)
IsLeap(y) == y % 4 = 0 /\ (y % 100 # 0 \/ y % 400 = 0)

DaysInMonth(y, m) ==
    IF m = 2 THEN (IF IsLeap(y) THEN 29 ELSE 28)
    ELSE IF m \in {4, 6, 9, 11} THEN 30 ELSE 31

RECURSIVE DaysBefore(_, _)
DaysBefore(y, m) == IF m = 1 THEN 0 ELSE DaysBefore(y, m - 1) + DaysInMonth(y, m - 1)

DtYear(t) == t.y

DtMonth(t) == t.m

DtDayOfYear(t) == DaysBefore(t.y, t.m) + t.d

\* (Ktemp - 273.15) * (9/5) + 32, Ktemp in hundredths of a kelvin
KtempToFtemp(k) == Rat((k - 27315) * 9 + 16000, 500)

(***************************************************************************)
(* The source file data/weather.csv.  state is "ok", "missing" (the file   *)
(* cannot be opened) or "malformed" (read_csv cannot parse it); columns is *)
(* the header; rows are the records in file order.                         *)
(***************************************************************************)
RawRows(years, days, ktemps) ==
    { [time |-> [y |-> yy, m |-> md[1], d |-> md[2]], Ktemp |-> k] :
        yy \in years, md \in days, k \in ktemps }

\* total order on raw rows, used only to pick one file per multiset of rows
DateKey(t) == (t.y * 12 + t.m) * 32 + t.d

RowLeq(a, b) ==
    \/ DateKey(a.time) < DateKey(b.time)
    \/ DateKey(a.time) = DateKey(b.time) /\ a.Ktemp <= b.Ktemp

Tables(years, days, ktemps, maxRows) ==
    UNION { { s \in [1..n -> RawRows(years, days, ktemps)] :
                \A i \in 1..(n - 1) : RowLeq(s[i], s[i + 1]) } :
            n \in 0..maxRows }

BrokenSources ==
    { [state |-> "missing", columns |-> {}, rows |-> << >>],
      [state |-> "malformed", columns |-> {}, rows |-> << >>],
      [state |-> "ok", columns |-> {"Ktemp"}, rows |-> << >>],
      [state |-> "ok", columns |-> {"time"}, rows |-> << >>],
      [state |-> "ok", columns |-> {}, rows |-> << >>] }

Sources(years, days, ktemps, maxRows) ==
    BrokenSources \cup
    { [state |-> "ok", columns |-> {"time", "Ktemp"}, rows |-> t] : t \in Tables(years, days, ktemps, maxRows) }

(***************************************************************************)
(* get_weather_data: the body, and the st.cache_data wrapper around it.    *)
(* A cache or a result is a sequence of zero or one frames.                *)
(***************************************************************************)
\* one row of the frame after lines 26-30
DeriveRow(r) ==
    [time |-> r.time, Ktemp |-> r.Ktemp,
     year |-> DtYear(r.time), month |-> DtMonth(r.time),
     day_of_year |-> DtDayOfYear(r.time), Ftemp |-> KtempToFtemp(r.Ktemp)]

\* the undecorated function body: [error, value]
LoadBody(src) ==
    IF src.state = "missing" THEN [error |-> "FileNotFoundError", value |-> << >>]
    ELSE IF src.state = "malformed" THEN [error |-> "ParserError", value |-> << >>]
    ELSE IF "time" \notin src.columns THEN [error |-> "KeyError: time", value |-> << >>]
    ELSE IF "Ktemp" \notin src.columns THEN [error |-> "KeyError: Ktemp", value |-> << >>]
    ELSE [error |-> "none",
          value |-> << [i \in 0..(Len(src.rows) - 1) |-> DeriveRow(src.rows[i + 1])] >>]

\* the same call with no cache lookup: the body runs on every call
get_weather_data_uncached(src, cch) ==
    LET r == LoadBody(src)
    IN  [error |-> r.error, value |-> r.value,
         cache |-> IF r.error = "none" THEN r.value ELSE cch,
         executed |-> TRUE]

\* a loader that swallows a failed read and caches an empty frame
get_weather_data_default(src, cch) ==
    IF cch # << >>
    THEN [error |-> "none", value |-> cch, cache |-> cch, executed |-> FALSE]
    ELSE LET r == LoadBody(src)
             v == IF r.error = "none" THEN r.value ELSE << << >> >>
         IN  [error |-> "none", value |-> v, cache |-> v, executed |-> TRUE]

\* the decorated call: a hit returns the stored value and does not run the
\* body; a miss runs it and stores the value unless the body raised
get_weather_data(src, cch) ==
    IF cch # << >>
    THEN [error |-> "none", value |-> cch, cache |-> cch, executed |-> FALSE]
    ELSE LET r == LoadBody(src)
         IN  [error |-> r.error, value |-> r.value,
              cache |-> IF r.error = "none" THEN r.value ELSE cch,
              executed |-> TRUE]

(***************************************************************************)
(* DataFrame and Series operations used by the script.                     *)
(***************************************************************************)
\* frame[mask]: the rows whose mask is true, labels kept; mask is a boolean
\* Series over the frame's labels
Select(frame, mask) == [i \in {j \in DOMAIN frame : mask[j]} |-> frame[i]]

SetMin(S) == CHOOSE x \in S : \A z \in S : x <= z

SetMax(S) == CHOOSE x \in S : \A z \in S : z <= x

RECURSIVE SumFtemp(_, _)
SumFtemp(frame, I) ==
    IF I = {} THEN Rat(0, 1)
    ELSE LET i == CHOOSE j \in I : TRUE
         IN  RatAdd(frame[i].Ftemp, SumFtemp(frame, I \ {i}))

\* mean of Ftemp over the rows labelled I; NaN for no rows
MeanFtemp(frame, I) ==
    IF I = {} THEN NaN ELSE RatDivInt(SumFtemp(frame, I), Cardinality(I))

\* Series.max() and Series.min() of Ftemp; NaN for an empty Series
MaxFtemp(frame) ==
    IF DOMAIN frame = {} THEN NaN
    ELSE LET i == CHOOSE j \in DOMAIN frame :
                      \A k \in DOMAIN frame : ~RatLess(frame[j].Ftemp, frame[k].Ftemp)
         IN  frame[i].Ftemp

MinFtemp(frame) ==
    IF DOMAIN frame = {} THEN NaN
    ELSE LET i == CHOOSE j \in DOMAIN frame :
                      \A k \in DOMAIN frame : ~RatLess(frame[k].Ftemp, frame[j].Ftemp)
         IN  frame[i].Ftemp

\* frame.groupby(keys)['Ftemp'].mean(): one entry per key value present;
\* key gives each label's key value
GroupMean(frame, key) ==
    [k \in {key[i] : i \in DOMAIN frame} |->
        MeanFtemp(frame, {i \in DOMAIN frame : key[i] = k})]

YearKey(frame) == [i \in DOMAIN frame |-> frame[i].year]

YearDayKey(frame) == [i \in DOMAIN frame |-> <<frame[i].year, frame[i].day_of_year>>]

YearMonthKey(frame) == [i \in DOMAIN frame |-> <<frame[i].year, frame[i].month>>]

\* f"{x:.<digits>f}": x rounded half-to-even to that many decimals, in units
\* of 10^-digits; "nan" for NaN
RECURSIVE Pow10(_)
Pow10(k) == IF k = 0 THEN 1 ELSE 10 * Pow10(k - 1)

FormatFixed(x, digits) ==
    IF IsNaN(x) THEN [nan |-> TRUE, units |-> 0, digits |-> digits]
    ELSE LET sc == x.n * Pow10(digits)
             fl == sc \div x.d
             rm == sc % x.d
             up == IF 2 * rm > x.d THEN 1
                   ELSE IF 2 * rm < x.d THEN 0
                   ELSE fl % 2
         IN  [nan |-> FALSE, units |-> fl + up, digits |-> digits]

(***************************************************************************)
(* The script.  env holds the module globals of one script run; each       *)
(* statement maps env to env.  An unset global is << >>.                   *)
(***************************************************************************)
seasons == {"All Year", "Winter (Dec-Feb)", "Spring (Mar-May)", "Summer (Jun-Aug)", "Fall (Sep-Nov)"}

viz_types == {"Heatmap", "Monthly Averages", "Yearly Trend"}

BlankEnv ==
    [error |-> "none", df |-> << >>, year_range |-> << >>, filtered_df |-> << >>,
     heatmap_pivot |-> << >>, monthly_avg |-> << >>, yearly_avg |-> << >>,
     temp_change |-> << >>, metrics |-> << >>]

\* lines 55-62: the slider's bounds and, for a session's first run, its value
min_year(frame) == SetMin({frame[i].year : i \in DOMAIN frame})

max_year(frame) == SetMax({frame[i].year : i \in DOMAIN frame})

Sidebar(env, yr) ==
    [env EXCEPT !.year_range =
        IF yr = << >> THEN <<min_year(env.df[1]), max_year(env.df[1])>> ELSE yr]

\* line 79 written as an in-place filter: df itself is rebound
YearFilterInPlace(env) ==
    LET d == env.df[1]
        f == Select(d, [i \in DOMAIN d |->
                          d[i].year >= env.year_range[1] /\ d[i].year <= env.year_range[2]])
    IN  [env EXCEPT !.df = <<f>>, !.filtered_df = <<f>>]

\* line 79 with the upper bound exclusive
YearFilterExclusive(env) ==
    LET d == env.df[1]
    IN  [env EXCEPT !.filtered_df =
            << Select(d, [i \in DOMAIN d |->
                            d[i].year >= env.year_range[1] /\ d[i].year < env.year_range[2]]) >>]

\* line 79
YearFilter(env) ==
    LET d == env.df[1]
    IN  [env EXCEPT !.filtered_df =
            << Select(d, [i \in DOMAIN d |->
                            d[i].year >= env.year_range[1] /\ d[i].year <= env.year_range[2]]) >>]

\* the Winter mask without December
SeasonMaskNoDecember(season, month) ==
    IF season = "Winter (Dec-Feb)" THEN month <= 2
    ELSE IF season = "Spring (Mar-May)" THEN month >= 3 /\ month <= 5
    ELSE IF season = "Summer (Jun-Aug)" THEN month >= 6 /\ month <= 8
    ELSE IF season = "Fall (Sep-Nov)" THEN month >= 9 /\ month <= 11
    ELSE TRUE

\* lines 82-89: the row mask of each branch; no branch is taken for All Year
SeasonMask(season, month) ==
    IF season = "Winter (Dec-Feb)" THEN month = 12 \/ month <= 2
    ELSE IF season = "Spring (Mar-May)" THEN month >= 3 /\ month <= 5
    ELSE IF season = "Summer (Jun-Aug)" THEN month >= 6 /\ month <= 8
    ELSE IF season = "Fall (Sep-Nov)" THEN month >= 9 /\ month <= 11
    ELSE TRUE

SeasonFilter(env, season) ==
    LET f == env.filtered_df[1]
    IN  [env EXCEPT !.filtered_df =
            << Select(f, [i \in DOMAIN f |-> SeasonMask(season, f[i].month)]) >>]

\* st.metric(label, value, delta)
Metric(label, value, delta) == [label |-> label, value |-> value, delta |-> delta]

\* a pivot that fills the cells with no observation with zero
PivotFillZero(data) ==
    LET index == {k[1] : k \in DOMAIN data}
        columns == {k[2] : k \in DOMAIN data}
    IN  [index |-> index, columns |-> columns,
         values |-> [c \in index \X columns |->
                        IF c \in DOMAIN data THEN data[c] ELSE Rat(0, 1)]]

\* line 97: data.pivot(index='year', columns='day_of_year', values='Ftemp')
Pivot(data) ==
    LET index == {k[1] : k \in DOMAIN data}
        columns == {k[2] : k \in DOMAIN data}
    IN  [index |-> index, columns |-> columns,
         values |-> [c \in index \X columns |->
                        IF c \in DOMAIN data THEN data[c] ELSE NaN]]

\* lines 95-97 and 141-152 (the chart itself is not modelled)
HeatmapView(env) ==
    LET f == env.filtered_df[1]
        heatmap_data == GroupMean(f, YearDayKey(f))
    IN  [env EXCEPT
            !.heatmap_pivot = << Pivot(heatmap_data) >>,
            !.metrics =
                << Metric("Average Temperature",
                          FormatFixed(MeanFtemp(f, DOMAIN f), 1), ""),
                   Metric("Maximum Temperature", FormatFixed(MaxFtemp(f), 1), ""),
                   Metric("Minimum Temperature", FormatFixed(MinFtemp(f), 1), "") >>]

\* lines 157-158
MonthlyView(env) ==
    [env EXCEPT !.monthly_avg = << GroupMean(env.filtered_df[1], YearMonthKey(env.filtered_df[1])) >>]

\* the label with a non-strict test
DeltaLabelNonStrict(temp_change) ==
    IF IsNaN(temp_change) \/ temp_change.n < 0 THEN "Cooler" ELSE "Warmer"

\* line 227
DeltaLabel(temp_change) == IF RatPositive(temp_change) THEN "Warmer" ELSE "Cooler"

\* the change taken between the slider's bounds instead of the years present
TrendBetweenBounds(env) ==
    LET yearly_avg == GroupMean(env.filtered_df[1], YearKey(env.filtered_df[1]))
        lo == env.year_range[1]
        hi == env.year_range[2]
    IN  IF lo \notin DOMAIN yearly_avg \/ hi \notin DOMAIN yearly_avg
        THEN [env EXCEPT !.yearly_avg = <<yearly_avg>>, !.error = "IndexError"]
        ELSE LET temp_change == RatSub(yearly_avg[hi], yearly_avg[lo])
             IN  [env EXCEPT
                    !.yearly_avg = <<yearly_avg>>,
                    !.temp_change = <<temp_change>>,
                    !.metrics = << [label |-> "Temperature Change", from |-> lo, to |-> hi,
                                    value |-> FormatFixed(RatAbs(temp_change), 2),
                                    delta |-> DeltaLabel(temp_change)] >>]

\* lines 199-228.  On an empty yearly_avg, yearly_avg['year'].min() is NaN,
\* the selection yearly_avg[yearly_avg['year'] == NaN] has no rows and
\* .values[0] raises IndexError at line 220
YearlyView(env) ==
    LET yearly_avg == GroupMean(env.filtered_df[1], YearKey(env.filtered_df[1]))
    IN  IF DOMAIN yearly_avg = {}
        THEN [env EXCEPT !.yearly_avg = <<yearly_avg>>, !.error = "IndexError"]
        ELSE LET lo == SetMin(DOMAIN yearly_avg)
                 hi == SetMax(DOMAIN yearly_avg)
                 first_year_temp == yearly_avg[lo]
                 last_year_temp == yearly_avg[hi]
                 temp_change == RatSub(last_year_temp, first_year_temp)
             IN  [env EXCEPT
                    !.yearly_avg = <<yearly_avg>>,
                    !.temp_change = <<temp_change>>,
                    !.metrics = << [label |-> "Temperature Change", from |-> lo, to |-> hi,
                                    value |-> FormatFixed(RatAbs(temp_change), 2),
                                    delta |-> DeltaLabel(temp_change)] >>]

\* lines 92, 154, 199
View(env, viz) ==
    IF viz = "Heatmap" THEN HeatmapView(env)
    ELSE IF viz = "Monthly Averages" THEN MonthlyView(env)
    ELSE YearlyView(env)

\* One run of the script, lines 34-228.  An exception ends the run where it
\* is raised: a failed load at line 34, int(NaN) at line 55 for a frame with
\* no rows (ValueError), the IndexError of line 220.
Script(src, cch, yr, season, viz) ==
    LET call == get_weather_data(src, cch)
        e0 == [BlankEnv EXCEPT !.error = call.error, !.df = call.value]
        e == IF call.error # "none" THEN e0
             ELSE IF DOMAIN call.value[1] = {} THEN [e0 EXCEPT !.error = "ValueError"]
             ELSE View(SeasonFilter(YearFilter(Sidebar(e0, yr)), season), viz)
    IN  [env |-> e, cache |-> call.cache, executed |-> call.executed]

(***************************************************************************)
(* State.  source is the file on disk; cache is the st.cache_data store of *)
(* get_weather_data (process wide); reads counts the executions of its     *)
(* body; year_range, selected_season, viz_type are the session's widget    *)
(* values (year_range is << >> while the slider has not been rendered);    *)
(* the rest are the globals and the output of the latest script run.       *)
(***************************************************************************)
VARIABLES source, cache, reads, year_range, selected_season, viz_type,
          error, df, filtered_df, heatmap_pivot, monthly_avg, yearly_avg,
          temp_change, metrics

vars == <<source, cache, reads, year_range, selected_season, viz_type,
          error, df, filtered_df, heatmap_pivot, monthly_avg, yearly_avg,
          temp_change, metrics>>

InitWith(srcs) ==
    /\ source \in srcs
    /\ cache = << >>
    /\ reads = 0
    /\ year_range = << >>
    /\ selected_season = "All Year"
    /\ viz_type = "Heatmap"
    /\ error = "none"
    /\ df = << >>
    /\ filtered_df = << >>
    /\ heatmap_pivot = << >>
    /\ monthly_avg = << >>
    /\ yearly_avg = << >>
    /\ temp_change = << >>
    /\ metrics = << >>

Init == InitWith(Sources(Years, SampleDays, SampleKtemps, MaxRows))

InitMonths == InitWith(Sources(MonthlyYears, MonthlyDays, MonthlyKtemps, MaxMonthlyRows))

\* one script run with the given widget values
Run(yr, season, viz) ==
    \E r \in {Script(source, cache, yr, season, viz)} :
        /\ r.executed => reads < MaxReads
        /\ reads' = IF r.executed THEN reads + 1 ELSE reads
        /\ cache' = r.cache
        /\ year_range' = r.env.year_range
        /\ selected_season' = season
        /\ viz_type' = viz
        /\ error' = r.env.error
        /\ df' = r.env.df
        /\ filtered_df' = r.env.filtered_df
        /\ heatmap_pivot' = r.env.heatmap_pivot
        /\ monthly_avg' = r.env.monthly_avg
        /\ yearly_avg' = r.env.yearly_avg
        /\ temp_change' = r.env.temp_change
        /\ metrics' = r.env.metrics
        /\ UNCHANGED source

\* a browser session opens (or reloads) the page: widgets take their defaults
NewSession == Run(<< >>, "All Year", "Heatmap")

\* the user moves the year slider within the bounds it was rendered with
ChangeYearRange ==
    /\ year_range # << >>
    /\ \E lo \in min_year(cache[1])..max_year(cache[1]) :
         \E hi \in lo..max_year(cache[1]) :
            /\ <<lo, hi>> # year_range
            /\ Run(<<lo, hi>>, selected_season, viz_type)

ChangeSeason ==
    /\ year_range # << >>
    /\ \E s \in seasons \ {selected_season} : Run(year_range, s, viz_type)

ChangeViz ==
    /\ year_range # << >>
    /\ \E v \in viz_types \ {viz_type} : Run(year_range, selected_season, v)

Next == NewSession \/ ChangeYearRange \/ ChangeSeason \/ ChangeViz

Spec == Init /\ [][Next]_vars

SpecMonths == InitMonths /\ [][Next]_vars

(***************************************************************************)
(* Properties.  The helpers below restate the arithmetic from the raw      *)
(* Ktemp values, in units of 1/500 degree Fahrenheit.                      *)
(***************************************************************************)
NamedSeasons == seasons \ {"All Year"}

SeasonMonths(season) ==
    IF season = "Winter (Dec-Feb)" THEN {12, 1, 2}
    ELSE IF season = "Spring (Mar-May)" THEN {3, 4, 5}
    ELSE IF season = "Summer (Jun-Aug)" THEN {6, 7, 8}
    ELSE IF season = "Fall (Sep-Nov)" THEN {9, 10, 11}
    ELSE 1..12

RECURSIVE TotalF500(_, _)
TotalF500(frame, I) ==
    IF I = {} THEN 0
    ELSE LET i == CHOOSE j \in I : TRUE
         IN  (frame[i].Ktemp - 27315) * 9 + 16000 + TotalF500(frame, I \ {i})

\* v is the arithmetic mean of the Fahrenheit temperatures of rows I
IsMeanOf(v, frame, I) ==
    /\ I # {}
    /\ v.d > 0
    /\ v.n * 500 * Cardinality(I) = v.d * TotalF500(frame, I)

RowsOfYear(frame, y) == {i \in DOMAIN frame : frame[i].year = y}

FilteredEmpty == filtered_df # << >> /\ DOMAIN filtered_df[1] = {}

FilteredNonEmpty == filtered_df # << >> /\ DOMAIN filtered_df[1] # {}

\* C1: the filter step retains exactly the observations of the Dataset whose
\* year lies in [minYear, maxYear] and, for a named season, whose month is in
\* the season's set; with All Year it is the year-range filter alone.
C1_FilterRetainsExactly ==
    filtered_df # << >> =>
        LET d == cache[1]
            f == filtered_df[1]
            inRange == {i \in DOMAIN d :
                          year_range[1] <= d[i].year /\ d[i].year <= year_range[2]}
        IN  /\ DOMAIN f = {i \in inRange :
                             \/ selected_season = "All Year"
                             \/ d[i].month \in SeasonMonths(selected_season)}
            /\ \A i \in DOMAIN f : f[i] = d[i]
            /\ selected_season = "All Year" => DOMAIN f = inRange

\* a Winter pass that kept a December row and dropped a row outside the range
C1_Witness ==
    /\ filtered_df # << >>
    /\ selected_season = "Winter (Dec-Feb)"
    /\ \E i \in DOMAIN filtered_df[1] : filtered_df[1][i].month = 12
    /\ \E j \in DOMAIN cache[1] :
         cache[1][j].month = 12 /\ cache[1][j].year > year_range[2]

\* C2: on an empty filtered set the Yearly Trend view signals the missing
\* data explicitly: it does not index into the missing minimum/maximum year
\* and shows no temperature change or direction label.
C2_EmptyYearlySignalsNoData ==
    (viz_type = "Yearly Trend" /\ FilteredEmpty) =>
        /\ error \notin {"none", "IndexError"}
        /\ temp_change = << >>
        /\ metrics = << >>

\* C3: on an empty filtered set the Heatmap view has an empty grid and its
\* statistics are signalled undefined, never shown as NaN or zero.
C3_EmptyHeatmapStatsUndefined ==
    (viz_type = "Heatmap" /\ FilteredEmpty) =>
        /\ heatmap_pivot # << >>
        /\ heatmap_pivot[1].index = {}
        /\ heatmap_pivot[1].columns = {}
        /\ \A k \in DOMAIN metrics :
             ~metrics[k].value.nan /\ metrics[k].value.units # 0

LoadErrors == {"FileNotFoundError", "ParserError", "KeyError: time", "KeyError: Ktemp"}

\* C4 as stated: over any sequence of script runs the body of load() runs
\* at most once.
C4_ReadAtMostOnce == reads <= 1

\* C4 amended: once a call has returned a Dataset, no later call runs the
\* body and each returns the cached Dataset; a call on an empty cache runs
\* the body once and either raises, caching nothing, or caches what it
\* returns.
C4_ReadOncePerSuccessfulLoad ==
    [][ /\ cache # << >> => (reads' = reads /\ cache' = cache /\ df' = cache)
        /\ cache = << >> =>
             /\ reads' = reads + 1
             /\ \/ error' \in LoadErrors /\ cache' = << >> /\ df' = << >>
                \/ cache' # << >> /\ df' = cache' ]_vars

\* a third script run served from the cache after one execution of the body
C4_Witness ==
    /\ cache # << >>
    /\ reads = 1
    /\ df = cache
    /\ selected_season # "All Year"
    /\ viz_type # "Heatmap"

\* C5: an unreadable or unparsable source raises at read_csv (DataUnavailable),
\* a missing time or Ktemp column raises KeyError (SchemaError); in both
\* cases nothing is returned or cached and no filter or view runs; a
\* Dataset is returned only from a readable source with both columns.
C5_LoadFailsExplicitly ==
    reads > 0 =>
        LET unreadable == source.state # "ok"
            noSchema == source.state = "ok" /\ ~({"time", "Ktemp"} \subseteq source.columns)
        IN  /\ unreadable => error \in {"FileNotFoundError", "ParserError"}
            /\ noSchema => error \in {"KeyError: time", "KeyError: Ktemp"}
            /\ (unreadable \/ noSchema) =>
                 /\ cache = << >>
                 /\ df = << >>
                 /\ year_range = << >>
                 /\ filtered_df = << >>
                 /\ heatmap_pivot = << >>
                 /\ monthly_avg = << >>
                 /\ yearly_avg = << >>
                 /\ metrics = << >>
            /\ df # << >> => ~unreadable /\ ~noSchema

\* a second failed load of a file that lacks the Ktemp column
C5_Witness == reads = 2 /\ error = "KeyError: Ktemp" /\ cache = << >>

\* C6: for a non-empty filtered set, tempChange is the mean temperature of
\* the largest year with an observation in the filtered set minus the mean of
\* the smallest such year, whatever the bounds of the selected range.
C6_TempChangeBetweenPresentYears ==
    (viz_type = "Yearly Trend" /\ FilteredNonEmpty) =>
        LET f == filtered_df[1]
            present == {f[i].year : i \in DOMAIN f}
            lo == CHOOSE y \in present : \A z \in present : y <= z
            hi == CHOOSE y \in present : \A z \in present : z <= y
            Ilo == RowsOfYear(f, lo)
            Ihi == RowsOfYear(f, hi)
        IN  /\ error = "none"
            /\ temp_change # << >>
            /\ temp_change[1].d > 0
            /\ temp_change[1].n * 500 * Cardinality(Ihi) * Cardinality(Ilo)
                 = temp_change[1].d * (TotalF500(f, Ihi) * Cardinality(Ilo)
                                         - TotalF500(f, Ilo) * Cardinality(Ihi))
            /\ metrics[1].from = lo
            /\ metrics[1].to = hi

\* the season filter emptied the lower bound year of the range; the change is
\* taken between the two later years and is not zero
C6_Witness ==
    /\ viz_type = "Yearly Trend"
    /\ temp_change # << >>
    /\ year_range[1] < metrics[1].from
    /\ metrics[1].from < metrics[1].to
    /\ temp_change[1].n # 0
    /\ selected_season # "All Year"
    /\ \E i \in DOMAIN cache[1] : cache[1][i].year = year_range[1]

\* the cells of the grid: the mean of the observations of that year and day,
\* NaN where there is none
GridCellsAreMeans ==
    LET f == filtered_df[1]
        g == heatmap_pivot[1]
    IN  \A y \in g.index : \A c \in g.columns :
            LET I == {i \in DOMAIN f : f[i].year = y /\ f[i].day_of_year = c}
            IN  IF I = {} THEN IsNaN(g.values[<<y, c>>])
                ELSE IsMeanOf(g.values[<<y, c>>], f, I)

\* C7 as stated: one row per year present, one column for every day-of-year
\* 1 to 366, cells as above.
C7_GridHasEveryDayOfYear ==
    (viz_type = "Heatmap" /\ FilteredNonEmpty) =>
        /\ heatmap_pivot # << >>
        /\ heatmap_pivot[1].index = {filtered_df[1][i].year : i \in DOMAIN filtered_df[1]}
        /\ heatmap_pivot[1].columns = 1..366
        /\ GridCellsAreMeans

\* C7 amended: one row per year present and one column per day-of-year
\* present in the filtered set (each within 1..366); a cell holds the mean of
\* the observations of its year and day and is undefined, not zero, when
\* there is none.
C7_GridOverPresentDays ==
    (viz_type = "Heatmap" /\ FilteredNonEmpty) =>
        /\ heatmap_pivot # << >>
        /\ heatmap_pivot[1].index = {filtered_df[1][i].year : i \in DOMAIN filtered_df[1]}
        /\ heatmap_pivot[1].columns =
             {filtered_df[1][i].day_of_year : i \in DOMAIN filtered_df[1]}
        /\ heatmap_pivot[1].columns \subseteq 1..366
        /\ DOMAIN heatmap_pivot[1].values = heatmap_pivot[1].index \X heatmap_pivot[1].columns
        /\ GridCellsAreMeans

\* a grid with an undefined cell and a cell averaged over two observations
\* of different temperature
C7_Witness ==
    /\ viz_type = "Heatmap"
    /\ heatmap_pivot # << >>
    /\ \E c \in DOMAIN heatmap_pivot[1].values : IsNaN(heatmap_pivot[1].values[c])
    /\ \E i, j \in DOMAIN filtered_df[1] :
         /\ i # j
         /\ filtered_df[1][i].time = filtered_df[1][j].time
         /\ filtered_df[1][i].Ktemp # filtered_df[1][j].Ktemp

\* C8: the direction label is "Warmer" exactly when tempChange > 0 and
\* "Cooler" otherwise, zero included.
C8_WarmerIffPositive ==
    (viz_type = "Yearly Trend" /\ error = "none" /\ filtered_df # << >>) =>
        /\ temp_change # << >>
        /\ Len(metrics) = 1
        /\ metrics[1].delta \in {"Warmer", "Cooler"}
        /\ metrics[1].delta = "Warmer" <=> (temp_change[1].d > 0 /\ temp_change[1].n > 0)

\* a zero change between two different years, labelled Cooler
C8_Witness ==
    /\ viz_type = "Yearly Trend"
    /\ temp_change # << >>
    /\ temp_change[1].n = 0
    /\ metrics[1].from < metrics[1].to
    /\ metrics[1].delta = "Cooler"

\* the months a named season's filter keeps, found by running the filter
\* statement on a frame
KeptBy(season, frame) ==
    DOMAIN SeasonFilter([BlankEnv EXCEPT !.filtered_df = <<frame>>], season).filtered_df[1]

\* C9: the month sets of the four named season filters are pairwise
\* disjoint and cover months 1 to 12; every observation of the Dataset is
\* retained by exactly one named season filter.
C9_SeasonsPartitionMonths ==
    /\ \A s, t \in NamedSeasons :
         s # t => {m \in 1..12 : SeasonMask(s, m)} \cap {m \in 1..12 : SeasonMask(t, m)} = {}
    /\ UNION { {m \in 1..12 : SeasonMask(s, m)} : s \in NamedSeasons } = 1..12
    /\ cache # << >> =>
         \A i \in DOMAIN cache[1] :
            Cardinality({s \in NamedSeasons : i \in KeptBy(s, cache[1])}) = 1

\* a named season's pass over observations of two seasons, a December one kept
C9_Witness ==
    /\ selected_season \in NamedSeasons
    /\ filtered_df # << >>
    /\ DOMAIN filtered_df[1] # DOMAIN cache[1]
    /\ \E i \in DOMAIN filtered_df[1] : filtered_df[1][i].month = 12

\* C10: once loaded, the Dataset is the same after every recomputation pass
\* as before it, in the cache and in the script's df.
C10_DatasetUnchanged ==
    [][ df # << >> => (cache' = cache /\ df' = df /\ source' = source) ]_vars

\* a pass whose filter dropped rows and whose view was computed
C10_Witness ==
    /\ df # << >>
    /\ df = cache
    /\ filtered_df # << >>
    /\ DOMAIN filtered_df[1] # DOMAIN df[1]
    /\ viz_type = "Monthly Averages"
    /\ monthly_avg # << >>
    /\ DOMAIN monthly_avg[1] # {}

====
